---- MODULE Spec2Model ----
(***************************************************************************)
(* Model of zstd-pack.ts (src/unnamed/part_001): the ZstPackage helper     *)
(* around the wasm build of zstd_streaming_reader, and the wasm bootstrap  *)
(* singleton ensureWasm.                                                   *)
(*                                                                         *)
(* Strings are sequences of one-character strings, byte arrays are         *)
(* sequences of integers.  The wasm reader (ZstdReader) is declared in     *)
(* zstd_streaming_reader.d.ts but its implementation is not part of the    *)
(* sources; its behaviour is taken from the specification's Package Reader *)
(* and Frame Codec sections.                                               *)
(***************************************************************************)
EXTENDS Integers, Sequences, FiniteSets, TLC

\* ------------------------------------------------------------------------
\* Bounds of the model
\* ------------------------------------------------------------------------
\* Number of public-API calls made on one package after it was opened.
MaxOps == 4

\* Number of ZstPackage.open calls made, concurrently or one after another.
MaxOpens == 2

\* ------------------------------------------------------------------------
\* Characters and bytes
\* ------------------------------------------------------------------------
\* U+FFFD, what a non-fatal TextDecoder emits for a malformed byte.
ReplacementChar == "U+FFFD"

\* The ASCII characters the model's archives and paths are written in.
Ascii ==
  (34 :> "\"") @@ (44 :> ",") @@ (46 :> ".") @@ (91 :> "[") @@ (93 :> "]") @@
  (71 :> "G") @@ (79 :> "O") @@ (95 :> "_") @@
  (97 :> "a") @@ (98 :> "b") @@ (99 :> "c") @@ (101 :> "e") @@ (102 :> "f") @@
  (103 :> "g") @@ (105 :> "i") @@ (108 :> "l") @@ (110 :> "n") @@ (111 :> "o") @@
  (112 :> "p") @@ (114 :> "r") @@ (115 :> "s") @@ (116 :> "t") @@ (117 :> "u") @@
  (119 :> "w") @@ (120 :> "x")

\* new TextDecoder().decode(bytes): UTF-8, non-fatal.  Every byte of the
\* model is either one of the ASCII bytes above or the malformed byte.
TextDecoder_decode(bytes) ==
  [i \in 1..Len(bytes) |->
     IF bytes[i] \in DOMAIN Ascii THEN Ascii[bytes[i]] ELSE ReplacementChar]

\* UTF-8 encoding of an ASCII string (the producer's side of the file list).
Utf8(str) ==
  [i \in 1..Len(str) |-> CHOOSE c \in DOMAIN Ascii : Ascii[c] = str[i]]

\* ------------------------------------------------------------------------
\* JSON text of a file list
\* ------------------------------------------------------------------------
RECURSIVE JoinQuoted(_)
\* JSON.stringify of an array of strings without its brackets.
JoinQuoted(paths) ==
  IF paths = <<>> THEN <<>>
  ELSE <<"\"">> \o Head(paths) \o <<"\"">> \o
       (IF Len(paths) = 1 THEN <<>> ELSE <<",">> \o JoinQuoted(Tail(paths)))

\* The file list segment the encoder writes: a JSON array of path strings.
Stringify(paths) == <<"[">> \o JoinQuoted(paths) \o <<"]">>

\* Index of the first quote of s at or after position j (the closing quote of
\* a JSON string whose body starts at j), or 0 when there is none.
RECURSIVE ClosingQuote(_, _)
ClosingQuote(s, j) ==
  IF j > Len(s) THEN 0
  ELSE IF s[j] = "\"" THEN j
  ELSE ClosingQuote(s, j + 1)

\* Parses the elements of an array from position i on (s[i] starts a string);
\* acc holds the elements read so far.
RECURSIVE ParseElements(_, _, _)
ParseElements(s, i, acc) ==
  IF i > Len(s) \/ s[i] # "\"" THEN [ok |-> FALSE, val |-> <<>>]
  ELSE LET q == ClosingQuote(s, i + 1) IN
       IF q = 0 \/ q = Len(s) THEN [ok |-> FALSE, val |-> <<>>]
       ELSE LET str == SubSeq(s, i + 1, q - 1)
                more == Append(acc, str)
            IN IF s[q + 1] = "]"
               THEN [ok |-> q + 1 = Len(s), val |-> IF q + 1 = Len(s) THEN more ELSE <<>>]
               ELSE IF s[q + 1] = ","
               THEN ParseElements(s, q + 2, more)
               ELSE [ok |-> FALSE, val |-> <<>>]

\* JSON.parse(text) on the texts a reader hands out: an array of strings
\* parses to the sequence of its strings, anything else the model feeds it
\* (a truncated array) is a SyntaxError (ok = FALSE).
JSON_parse(s) ==
  IF Len(s) < 2 \/ s[1] # "[" THEN [ok |-> FALSE, val |-> <<>>]
  ELSE IF s[2] = "]" THEN [ok |-> Len(s) = 2, val |-> <<>>]
  ELSE ParseElements(s, 2, <<>>)

\* ------------------------------------------------------------------------
\* Paths and archives (the inputs of the model)
\* ------------------------------------------------------------------------
P_webp == <<"a", ".", "w", "e", "b", "p">>
P_OGG  == <<"b", ".", "O", "G", "G">>
P_ogg  == <<"b", ".", "o", "g", "g">>
P_bin  == <<"x", ".", "b", "i", "n">>

\* Paths callers ask for.  P_ogg is in no archive: it differs from P_OGG in
\* case only.
Paths == {P_webp, P_OGG, P_ogg, P_bin}

\* An archive buffer, described by what its bytes hold: whether the header
\* is well formed, the paths of its file list, how many bytes of the list
\* segment are cut off, whether the list segment can be read at all, and the
\* frame of each entry (frames[i] belongs to paths[i]).
GoodFrame(bytes) == [ok |-> TRUE, bytes |-> bytes]
CorruptFrame     == [ok |-> FALSE, bytes |-> <<>>]

ArchGood ==
  [magic |-> TRUE, paths |-> <<P_webp, P_OGG>>, listCut |-> 0, listOk |-> TRUE,
   frames |-> <<GoodFrame(<<97, 98>>), GoodFrame(<<255>>)>>]
ArchEmpty ==
  [magic |-> TRUE, paths |-> <<>>, listCut |-> 0, listOk |-> TRUE, frames |-> <<>>]
ArchCorruptFrame ==
  [magic |-> TRUE, paths |-> <<P_bin, P_webp>>, listCut |-> 0, listOk |-> TRUE,
   frames |-> <<CorruptFrame, GoodFrame(<<97, 98>>)>>]
ArchBadMagic ==
  [magic |-> FALSE, paths |-> <<P_webp>>, listCut |-> 0, listOk |-> TRUE,
   frames |-> <<GoodFrame(<<97>>)>>]
ArchCutList ==
  [magic |-> TRUE, paths |-> <<P_webp, P_OGG>>, listCut |-> 2, listOk |-> TRUE,
   frames |-> <<GoodFrame(<<97, 98>>), GoodFrame(<<255>>)>>]
ArchNoList ==
  [magic |-> TRUE, paths |-> <<P_webp>>, listCut |-> 0, listOk |-> FALSE,
   frames |-> <<GoodFrame(<<97>>)>>]

Archives ==
  {ArchGood, ArchEmpty, ArchCorruptFrame, ArchBadMagic, ArchCutList, ArchNoList}

\* ------------------------------------------------------------------------
\* The wasm reader (zstd_streaming_reader.d.ts, class ZstdReader)
\* ------------------------------------------------------------------------
NoReader == [state |-> "none", data |-> ArchEmpty, freeCalls |-> 0]

\* new ZstdReader(data): validates the header, or throws.
ZstdReader_new(data) ==
  IF data.magic
  THEN [ok |-> TRUE, err |-> "", reader |-> [state |-> "live", data |-> data, freeCalls |-> 0]]
  ELSE [ok |-> FALSE, err |-> "OpenError", reader |-> NoReader]

\* reader.get_file_list(): the bytes of the archive's file list segment.
get_file_list(rd) ==
  IF ~rd.data.listOk THEN [ok |-> FALSE, err |-> "OpenError", val |-> <<>>]
  ELSE LET all == Utf8(Stringify(rd.data.paths))
       IN [ok |-> TRUE, err |-> "", val |-> SubSeq(all, 1, Len(all) - rd.data.listCut)]

\* What a live reader answers for extract_file(path): a freshly allocated
\* buffer (identified by id) holding the decoded frame, or an error.
ExtractLive(rd, path, id) ==
  LET hits == {i \in 1..Len(rd.data.paths) : rd.data.paths[i] = path} IN
  IF hits = {} THEN [ok |-> FALSE, err |-> "PathNotFoundInReader", val |-> [id |-> 0, bytes |-> <<>>]]
  ELSE LET f == rd.data.frames[CHOOSE i \in hits : \A j \in hits : i <= j] IN
       IF f.ok THEN [ok |-> TRUE, err |-> "", val |-> [id |-> id, bytes |-> f.bytes]]
       ELSE [ok |-> FALSE, err |-> "DecodeError", val |-> [id |-> 0, bytes |-> <<>>]]

\* What extract_file may do on a reader whose free() was called: the glue
\* passes a dangling pointer, which the wasm side either rejects or follows.
ExtractFreed(rd, path, id) ==
  {[ok |-> FALSE, err |-> "NullPointer", val |-> [id |-> 0, bytes |-> <<>>]],
   ExtractLive(rd, path, id)}

\* reader.extract_file(path), with `dangling` the outcome picked when the
\* reader was freed before.
extract_file(rd, path, id, dangling) ==
  IF rd.state = "freed" THEN dangling ELSE ExtractLive(rd, path, id)

\* reader.free().
free(rd) == [rd EXCEPT !.state = "freed", !.freeCalls = @ + 1]

\* ------------------------------------------------------------------------
\* class ZstPackage: fields reader, fileIndex, urlCache
\* ------------------------------------------------------------------------
NoValue  == [kind |-> "none"]
NoBuffer == [id |-> 0, bytes |-> <<>>]
EmptyMap == <<>>

\* The constructor with the parse failure swallowed: an unreadable file
\* list gives a package with an empty index.
ZstPackage_new_swallow(data) ==
  LET r == ZstdReader_new(data) IN
  IF ~r.ok THEN [ok |-> FALSE, err |-> r.err, reader |-> NoReader, fileIndex |-> <<>>]
  ELSE LET listJSON == get_file_list(r.reader)
           parsed == JSON_parse(TextDecoder_decode(listJSON.val))
       IN [ok |-> TRUE, err |-> "", reader |-> r.reader,
           fileIndex |-> IF listJSON.ok /\ parsed.ok THEN parsed.val ELSE <<>>]

\* constructor(data): creates the reader and parses its file list; any
\* throw leaves no package behind.  `reader` is the reader that was
\* constructed, whether or not the constructor completed.
ZstPackage_new(data) ==
  LET r == ZstdReader_new(data) IN
  IF ~r.ok THEN [ok |-> FALSE, err |-> r.err, reader |-> NoReader, fileIndex |-> <<>>]
  ELSE LET listJSON == get_file_list(r.reader) IN
       IF ~listJSON.ok
       THEN [ok |-> FALSE, err |-> listJSON.err, reader |-> r.reader, fileIndex |-> <<>>]
       ELSE LET listStr == TextDecoder_decode(listJSON.val)
                parsed  == JSON_parse(listStr)
            IN IF ~parsed.ok
               THEN [ok |-> FALSE, err |-> "SyntaxError", reader |-> r.reader, fileIndex |-> <<>>]
               ELSE [ok |-> TRUE, err |-> "", reader |-> r.reader, fileIndex |-> parsed.val]

\* list() handing out the index back to front.
list_reversed(fileIndex) ==
  [i \in 1..Len(fileIndex) |-> fileIndex[Len(fileIndex) + 1 - i]]

\* list(): the file index itself.
list(fileIndex) == fileIndex

\* Array.prototype.includes on an array of strings.
includes(arr, x) == \E i \in 1..Len(arr) : arr[i] = x

\* String.prototype.toLowerCase on the model's alphabet: an upper-case
\* ASCII letter (codes 65 to 90) becomes the letter 32 codes further.
toLowerCase(str) ==
  [i \in 1..Len(str) |->
     LET codes == {k \in DOMAIN Ascii : Ascii[k] = str[i] /\ k \in 65..90}
     IN IF codes = {} THEN str[i] ELSE Ascii[(CHOOSE k \in codes : TRUE) + 32]]

\* assertPath comparing paths without regard to case.
assertPath_ignoreCase(fileIndex, path) ==
  \E i \in 1..Len(fileIndex) : toLowerCase(fileIndex[i]) = toLowerCase(path)

\* assertPath(path): TRUE when it returns, FALSE when it throws.
assertPath(fileIndex, path) == includes(fileIndex, path)

\* getBytes serving the buffer of the previous extraction instead of asking
\* the reader again.
getBytes_memo(fileIndex, rd, path, id, dangling) ==
  IF ~assertPath(fileIndex, path)
  THEN [ok |-> FALSE, err |-> "PathNotFound", buf |-> NoBuffer, calls |-> <<>>]
  ELSE IF id > 1
  THEN LET r == extract_file(rd, path, id - 1, dangling)
       IN [ok |-> r.ok, err |-> r.err, buf |-> r.val, calls |-> <<>>]
  ELSE LET r == extract_file(rd, path, id, dangling)
       IN [ok |-> r.ok, err |-> r.err, buf |-> r.val, calls |-> <<path>>]

\* getBytes reading from a stream position that earlier extractions moved:
\* after the first extraction the result is empty.
getBytes_consumed(fileIndex, rd, path, id, dangling) ==
  IF ~assertPath(fileIndex, path)
  THEN [ok |-> FALSE, err |-> "PathNotFound", buf |-> NoBuffer, calls |-> <<>>]
  ELSE LET r == extract_file(rd, path, id, dangling)
       IN [ok |-> r.ok, err |-> r.err, calls |-> <<path>>,
           buf |-> IF id > 1 THEN [id |-> r.val.id, bytes |-> <<>>] ELSE r.val]

\* getBytes(path).  `calls` lists the extract_file invocations made; id is
\* the identity of the buffer the reader would allocate.
getBytes(fileIndex, rd, path, id, dangling) ==
  IF ~assertPath(fileIndex, path)
  THEN [ok |-> FALSE, err |-> "PathNotFound", buf |-> NoBuffer, calls |-> <<>>]
  ELSE LET r == extract_file(rd, path, id, dangling)
       IN [ok |-> r.ok, err |-> r.err, buf |-> r.val, calls |-> <<path>>]

\* path.split(".").pop(): the text after the last ".", the whole path when
\* it has none.
RECURSIVE LastSegment(_)
LastSegment(path) ==
  LET dots == {i \in 1..Len(path) : path[i] = "."} IN
  IF dots = {} THEN path
  ELSE LastSegment(SubSeq(path, (CHOOSE i \in dots : \A j \in dots : i <= j) + 1, Len(path)))

\* const MIME_BY_EXT
MIME_BY_EXT ==
  (<<"w", "e", "b", "p">> :> "image/webp") @@
  (<<"o", "g", "g">> :> "audio/ogg") @@
  (<<"g", "l", "t", "f">> :> "model/gltf+json") @@
  (<<"b", "i", "n">> :> "application/octet-stream")

\* What MIME_BY_EXT, an object literal, inherits from Object.prototype under
\* an all-lower-case key, as the string a Blob makes of it: the function
\* Object and the prototype object itself.  The other inherited keys hold
\* an upper-case letter and cannot equal a lower-cased extension.
ObjectPrototype ==
  (<<"c", "o", "n", "s", "t", "r", "u", "c", "t", "o", "r">>
     :> "function Object() { [native code] }") @@
  (<<"_", "_", "p", "r", "o", "t", "o", "_", "_">> :> "[object Object]")

\* mimeFromPath(path): MIME_BY_EXT[ext] ?? "application/octet-stream", the
\* property read going through the prototype chain.
mimeFromPath(path) ==
  LET ext == toLowerCase(LastSegment(path)) IN
  IF ext \in DOMAIN MIME_BY_EXT THEN MIME_BY_EXT[ext]
  ELSE IF ext \in DOMAIN ObjectPrototype THEN ObjectPrototype[ext]
  ELSE "application/octet-stream"

\* getBlob(path): a Blob holding a copy of the bytes, typed by the path.
getBlob(fileIndex, rd, path, id, dangling) ==
  LET b == getBytes(fileIndex, rd, path, id, dangling) IN
  [ok |-> b.ok, err |-> b.err, calls |-> b.calls,
   val |-> IF b.ok THEN [kind |-> "blob", id |-> b.buf.id, bytes |-> b.buf.bytes,
                         type |-> mimeFromPath(path)]
           ELSE NoValue]

\* getText(path): the bytes decoded as UTF-8.
getText(fileIndex, rd, path, id, dangling) ==
  LET b == getBytes(fileIndex, rd, path, id, dangling) IN
  [ok |-> b.ok, err |-> b.err, calls |-> b.calls,
   val |-> IF b.ok THEN [kind |-> "text", id |-> b.buf.id, text |-> TextDecoder_decode(b.buf.bytes)]
           ELSE NoValue]

\* getURL reserving the cache entry before the blob is built: a failed
\* extraction leaves the entry behind.
getURL_cacheFirst(urlCache, fileIndex, rd, path, id, dangling, fresh) ==
  IF path \in DOMAIN urlCache
  THEN [ok |-> TRUE, err |-> "", calls |-> <<>>, created |-> FALSE, urlCache |-> urlCache,
        val |-> [kind |-> "url", url |-> urlCache[path]]]
  ELSE LET blob == getBlob(fileIndex, rd, path, id, dangling) IN
       [ok |-> blob.ok, err |-> blob.err, calls |-> blob.calls, created |-> blob.ok,
        urlCache |-> (path :> fresh) @@ urlCache,
        val |-> IF blob.ok THEN [kind |-> "url", url |-> fresh] ELSE NoValue]

\* getURL without the cache write.
getURL_noCache(urlCache, fileIndex, rd, path, id, dangling, fresh) ==
  LET blob == getBlob(fileIndex, rd, path, id, dangling) IN
  [ok |-> blob.ok, err |-> blob.err, calls |-> blob.calls, created |-> blob.ok,
   urlCache |-> urlCache,
   val |-> IF blob.ok THEN [kind |-> "url", url |-> fresh] ELSE NoValue]

\* getURL(path): the cached URL, or a new object URL (`fresh` is the URL
\* createObjectURL would hand out) that is then cached.  `created` tells
\* whether createObjectURL was called, `urlCache` is the cache afterwards.
getURL(urlCache, fileIndex, rd, path, id, dangling, fresh) ==
  IF path \in DOMAIN urlCache
  THEN [ok |-> TRUE, err |-> "", calls |-> <<>>, created |-> FALSE, urlCache |-> urlCache,
        val |-> [kind |-> "url", url |-> urlCache[path]]]
  ELSE LET blob == getBlob(fileIndex, rd, path, id, dangling) IN
       IF ~blob.ok
       THEN [ok |-> FALSE, err |-> blob.err, calls |-> blob.calls, created |-> FALSE,
             urlCache |-> urlCache, val |-> NoValue]
       ELSE [ok |-> TRUE, err |-> "", calls |-> blob.calls, created |-> TRUE,
             urlCache |-> (path :> fresh) @@ urlCache,
             val |-> [kind |-> "url", url |-> fresh]]

\* dispose revoking the URLs without clearing the cache.
dispose_keepCache(urlCache, rd, urlRevokes) ==
  [urlRevokes |-> [u \in DOMAIN urlRevokes |->
                     urlRevokes[u] + Cardinality({p \in DOMAIN urlCache : urlCache[p] = u})],
   urlCache   |-> urlCache,
   reader     |-> free(rd)]

\* dispose clearing the cache without revoking its URLs.
dispose_noRevoke(urlCache, rd, urlRevokes) ==
  [urlRevokes |-> urlRevokes, urlCache |-> EmptyMap, reader |-> free(rd)]

\* dispose(): revokes every cached URL, clears the cache, frees the reader.
\* urlRevokes[u] counts the revokeObjectURL(u) calls made so far.
dispose(urlCache, rd, urlRevokes) ==
  [urlRevokes |-> [u \in DOMAIN urlRevokes |->
                     urlRevokes[u] + Cardinality({p \in DOMAIN urlCache : urlCache[p] = u})],
   urlCache   |-> EmptyMap,
   reader     |-> free(rd)]

\* ------------------------------------------------------------------------
\* State
\* ------------------------------------------------------------------------
VARIABLES
  phase,        \* "init" before open, then "open" (a package exists) or "rejected"
  reader,       \* ZstPackage.reader
  fileIndex,    \* ZstPackage.fileIndex
  urlCache,     \* ZstPackage.urlCache: path -> object URL
  urlRevokes,   \* per object URL created so far, the number of times it was revoked
  extractCalls, \* number of extract_file invocations made so far
  last,         \* the latest call on the package and its outcome
  seen,         \* per path, the first outcome of getBytes on the open package
  nops,         \* number of calls made on the package
  urlLog,       \* per path, what the getURL calls did so far
  wasmInit,     \* the module variable wasmInit: 0 for null, else a promise id
  wasmPromises, \* the state of each initialisation promise created so far
  initWasmCalls,\* the argument of each initWasm invocation made so far
  opens,        \* the ZstPackage.open calls made so far, in call order
  readers       \* per ZstdReader constructed so far, the open call that made it

pkgVars == <<phase, reader, fileIndex, urlCache, urlRevokes, extractCalls, last, seen, nops,
             urlLog>>
openVars == <<wasmInit, wasmPromises, initWasmCalls, opens, readers>>
vars == <<pkgVars, openVars>>

NoCall ==
  [n |-> 0, op |-> "none", path |-> <<>>, ok |-> TRUE, err |-> "", val |-> NoValue,
   calls |-> <<>>, freedBefore |-> FALSE, prevErr |-> "", seenBefore |-> FALSE]

Init ==
  /\ phase = "init"
  /\ reader = NoReader
  /\ fileIndex = <<>>
  /\ urlCache = EmptyMap
  /\ urlRevokes = <<>>
  /\ extractCalls = 0
  /\ last = NoCall
  /\ seen = EmptyMap
  /\ nops = 0
  /\ urlLog = [p \in Paths |-> [creates |-> 0, extracts |-> 0, extractsOk |-> 0, url |-> 0]]
  /\ wasmInit = 0
  /\ wasmPromises = <<>>
  /\ initWasmCalls = <<>>
  /\ opens = <<>>
  /\ readers = <<>>

\* What getBytes answered, without the identity of the buffer.
Outcome(r) == [ok |-> r.ok, err |-> r.err, bytes |-> r.buf.bytes]

\* The record of a call: its number, name, argument and outcome, whether
\* the reader had been freed when it was made, the error of the call before
\* it ("" when that one succeeded), and whether getBytes had answered for
\* its path before.
Call(op, path, ok, err, val, calls) ==
  [n |-> nops + 1, op |-> op, path |-> path, ok |-> ok, err |-> err, val |-> val,
   calls |-> calls, freedBefore |-> reader.state = "freed",
   prevErr |-> last.err, seenBefore |-> path \in DOMAIN seen]

\* ------------------------------------------------------------------------
\* Operations on one package
\* ------------------------------------------------------------------------
\* ZstPackage.open(data) with the wasm module ready and data a byte array:
\* open's last statement, new ZstPackage(data).
Open(data) ==
  /\ phase = "init"
  /\ LET p == ZstPackage_new(data) IN
       /\ phase' = IF p.ok THEN "open" ELSE "rejected"
       /\ reader' = IF p.ok THEN p.reader ELSE NoReader
       /\ fileIndex' = IF p.ok THEN p.fileIndex ELSE <<>>
  /\ UNCHANGED <<urlCache, urlRevokes, extractCalls, last, seen, nops, urlLog>>
  /\ UNCHANGED openVars

List ==
  /\ phase = "open" /\ nops < MaxOps
  /\ last' = Call("list", <<>>, TRUE, "", [kind |-> "list", list |-> list(fileIndex)], <<>>)
  /\ nops' = nops + 1
  /\ UNCHANGED <<phase, reader, fileIndex, urlCache, urlRevokes, extractCalls, seen, urlLog>>
  /\ UNCHANGED openVars

GetBytes(path) ==
  /\ phase = "open" /\ nops < MaxOps
  /\ \E dangling \in ExtractFreed(reader, path, extractCalls + 1) :
       LET r == getBytes(fileIndex, reader, path, extractCalls + 1, dangling) IN
         /\ last' = Call("getBytes", path, r.ok, r.err,
                         IF r.ok THEN [kind |-> "bytes", id |-> r.buf.id, bytes |-> r.buf.bytes]
                         ELSE NoValue, r.calls)
         /\ extractCalls' = extractCalls + Len(r.calls)
         /\ seen' = IF reader.state = "live" /\ path \notin DOMAIN seen
                    THEN (path :> Outcome(r)) @@ seen ELSE seen
  /\ nops' = nops + 1
  /\ UNCHANGED <<phase, reader, fileIndex, urlCache, urlRevokes, urlLog>>
  /\ UNCHANGED openVars

GetBlob(path) ==
  /\ phase = "open" /\ nops < MaxOps
  /\ \E dangling \in ExtractFreed(reader, path, extractCalls + 1) :
       LET r == getBlob(fileIndex, reader, path, extractCalls + 1, dangling) IN
         /\ last' = Call("getBlob", path, r.ok, r.err, r.val, r.calls)
         /\ extractCalls' = extractCalls + Len(r.calls)
  /\ nops' = nops + 1
  /\ UNCHANGED <<phase, reader, fileIndex, urlCache, urlRevokes, seen, urlLog>>
  /\ UNCHANGED openVars

GetText(path) ==
  /\ phase = "open" /\ nops < MaxOps
  /\ \E dangling \in ExtractFreed(reader, path, extractCalls + 1) :
       LET r == getText(fileIndex, reader, path, extractCalls + 1, dangling) IN
         /\ last' = Call("getText", path, r.ok, r.err, r.val, r.calls)
         /\ extractCalls' = extractCalls + Len(r.calls)
  /\ nops' = nops + 1
  /\ UNCHANGED <<phase, reader, fileIndex, urlCache, urlRevokes, seen, urlLog>>
  /\ UNCHANGED openVars

\* getURL has no await in its body: the whole body runs when it is called,
\* so calls issued without awaiting the earlier ones run one after another
\* like synchronous calls; only the delivery of the result is deferred.
GetURL(path) ==
  /\ phase = "open" /\ nops < MaxOps
  /\ \E dangling \in ExtractFreed(reader, path, extractCalls + 1) :
       LET r == getURL(urlCache, fileIndex, reader, path, extractCalls + 1, dangling,
                       Len(urlRevokes) + 1)
       IN
         /\ last' = Call("getURL", path, r.ok, r.err, r.val, r.calls)
         /\ extractCalls' = extractCalls + Len(r.calls)
         /\ urlCache' = r.urlCache
         /\ urlRevokes' = IF r.created THEN Append(urlRevokes, 0) ELSE urlRevokes
         /\ urlLog' = [urlLog EXCEPT ![path] =
              [creates    |-> @.creates + (IF r.created THEN 1 ELSE 0),
               extracts   |-> @.extracts + Len(r.calls),
               extractsOk |-> @.extractsOk + (IF r.ok THEN Len(r.calls) ELSE 0),
               url        |-> IF r.ok /\ @.url = 0 THEN r.val.url ELSE @.url]]
  /\ nops' = nops + 1
  /\ UNCHANGED <<phase, reader, fileIndex, seen>>
  /\ UNCHANGED openVars

\* dispose().  free() on a reader that was freed before hands the wasm side
\* a null pointer: it returns or throws, after the cache was cleared.
Dispose ==
  /\ phase = "open" /\ nops < MaxOps
  /\ LET d == dispose(urlCache, reader, urlRevokes) IN
       /\ urlCache' = d.urlCache
       /\ urlRevokes' = d.urlRevokes
       /\ reader' = d.reader
  /\ \E returns \in (IF reader.state = "freed" THEN BOOLEAN ELSE {TRUE}) :
       last' = Call("dispose", <<>>, returns, IF returns THEN "" ELSE "NullPointer",
                    NoValue, <<>>)
  /\ nops' = nops + 1
  /\ UNCHANGED <<phase, fileIndex, extractCalls, seen, urlLog>>
  /\ UNCHANGED openVars

Next ==
  \/ \E data \in Archives : Open(data)
  \/ List
  \/ \E path \in Paths : GetBytes(path)
  \/ \E path \in Paths : GetBlob(path)
  \/ \E path \in Paths : GetText(path)
  \/ \E path \in Paths : GetURL(path)
  \/ Dispose

Spec == Init /\ [][Next]_vars

\* ------------------------------------------------------------------------
\* ZstPackage.open and the wasm bootstrap singleton
\* ------------------------------------------------------------------------
\* An optional string argument.
Undefined == [defined |-> FALSE, str |-> ""]
Str(s) == [defined |-> TRUE, str |-> s]

\* JavaScript truthiness of an optional string: undefined and "" are falsy.
Truthy(w) == w.defined /\ w.str # ""

WasmURLs == {Undefined, Str(""), Str("/a.wasm")}

\* The sources handed to open: a URL string (whose response body is the
\* archive), an ArrayBuffer or a Uint8Array.
Sources ==
  {[kind |-> "string", data |-> ArchGood],
   [kind |-> "ArrayBuffer", data |-> ArchCutList],
   [kind |-> "ArrayBuffer", data |-> ArchEmpty],
   [kind |-> "Uint8Array", data |-> ArchBadMagic],
   [kind |-> "Uint8Array", data |-> ArchNoList]}

\* The argument initWasm is called with.
InitArg(wasmURL) ==
  IF Truthy(wasmURL) THEN [defined |-> TRUE, wasmBinaryPath |-> wasmURL.str]
  ELSE [defined |-> FALSE, wasmBinaryPath |-> ""]

\* ensureWasm testing whether the module is ready instead of whether the
\* initialisation was started.
ensureWasm_untilReady(init, promises, calls, wasmURL) ==
  IF init = 0 \/ promises[init] # "fulfilled"
  THEN [wasmInit |-> Len(promises) + 1,
        wasmPromises |-> Append(promises, "pending"),
        initWasmCalls |-> Append(calls, InitArg(wasmURL)),
        returned |-> Len(promises) + 1]
  ELSE [wasmInit |-> init, wasmPromises |-> promises, initWasmCalls |-> calls,
        returned |-> init]

\* ensureWasm starting over after a failed initialisation.
ensureWasm_retry(init, promises, calls, wasmURL) ==
  IF init = 0 \/ promises[init] = "rejected"
  THEN [wasmInit |-> Len(promises) + 1,
        wasmPromises |-> Append(promises, "pending"),
        initWasmCalls |-> Append(calls, InitArg(wasmURL)),
        returned |-> Len(promises) + 1]
  ELSE [wasmInit |-> init, wasmPromises |-> promises, initWasmCalls |-> calls,
        returned |-> init]

\* ensureWasm(wasmURL): when wasmInit is null, starts the initialisation
\* (the async arrow function runs up to its await, so initWasm is invoked
\* before ensureWasm returns) and stores its promise; returns wasmInit.
ensureWasm(init, promises, calls, wasmURL) ==
  IF init = 0
  THEN [wasmInit |-> Len(promises) + 1,
        wasmPromises |-> Append(promises, "pending"),
        initWasmCalls |-> Append(calls, InitArg(wasmURL)),
        returned |-> Len(promises) + 1]
  ELSE [wasmInit |-> init, wasmPromises |-> promises, initWasmCalls |-> calls,
        returned |-> init]

NoHandle == [made |-> FALSE, reader |-> NoReader, fileIndex |-> <<>>, urlCache |-> EmptyMap]

\* open, first part: the call runs ensureWasm and suspends on its promise.
\* `late` tells whether an initialisation had already settled by then.
OpenCall(source, wasmURL) ==
  /\ Len(opens) < MaxOpens
  /\ LET e == ensureWasm(wasmInit, wasmPromises, initWasmCalls, wasmURL) IN
       /\ wasmInit' = e.wasmInit
       /\ wasmPromises' = e.wasmPromises
       /\ initWasmCalls' = e.initWasmCalls
       /\ opens' = Append(opens, [pc |-> "awaitWasm", source |-> source, wasmURL |-> wasmURL,
                                  awaited |-> e.returned, err |-> "", handle |-> NoHandle,
                                  late |-> wasmInit # 0 /\ wasmPromises[wasmInit] # "pending"])
  /\ UNCHANGED readers
  /\ UNCHANGED pkgVars

\* The wasm module finishes loading, or fails to.
WasmSettle(p, ok) ==
  /\ p \in DOMAIN wasmPromises /\ wasmPromises[p] = "pending"
  /\ wasmPromises' = [wasmPromises EXCEPT ![p] = IF ok THEN "fulfilled" ELSE "rejected"]
  /\ UNCHANGED <<wasmInit, initWasmCalls, opens, readers>>
  /\ UNCHANGED pkgVars

\* return new ZstPackage(data): the state of open call o afterwards.
Construct(o) ==
  LET p == ZstPackage_new(opens[o].source.data) IN
  /\ opens' = [opens EXCEPT
       ![o].pc = IF p.ok THEN "resolved" ELSE "rejected",
       ![o].err = p.err,
       ![o].handle = IF p.ok
                     THEN [made |-> TRUE, reader |-> p.reader, fileIndex |-> p.fileIndex,
                           urlCache |-> EmptyMap]
                     ELSE NoHandle]
  /\ readers' = IF p.reader.state = "none" THEN readers
                ELSE Append(readers, [owner |-> o, wasm |-> wasmPromises[opens[o].awaited],
                                      owned |-> p.ok, freed |-> FALSE])

\* open going on without awaiting ensureWasm's promise.
OpenResume_noAwait(o) ==
  /\ o \in DOMAIN opens /\ opens[o].pc = "awaitWasm"
  /\ IF opens[o].source.kind = "string"
     THEN /\ opens' = [opens EXCEPT ![o].pc = "awaitFetch"]
          /\ UNCHANGED readers
     ELSE Construct(o)
  /\ UNCHANGED <<wasmInit, wasmPromises, initWasmCalls>>
  /\ UNCHANGED pkgVars

\* open resumes after `await ensureWasm(wasmURL)`.
OpenResume(o) ==
  /\ o \in DOMAIN opens /\ opens[o].pc = "awaitWasm"
  /\ wasmPromises[opens[o].awaited] # "pending"
  /\ IF wasmPromises[opens[o].awaited] = "rejected"
     THEN /\ opens' = [opens EXCEPT ![o].pc = "rejected", ![o].err = "WasmInitError"]
          /\ UNCHANGED readers
     ELSE IF opens[o].source.kind = "string"
     THEN /\ opens' = [opens EXCEPT ![o].pc = "awaitFetch"]
          /\ UNCHANGED readers
     ELSE Construct(o)
  /\ UNCHANGED <<wasmInit, wasmPromises, initWasmCalls>>
  /\ UNCHANGED pkgVars

\* `await fetch(source)` settles: a response that is ok, one that is not,
\* or a network error.
FetchSettle(o, outcome) ==
  /\ o \in DOMAIN opens /\ opens[o].pc = "awaitFetch"
  /\ opens' = [opens EXCEPT
       ![o].pc = IF outcome = "ok" THEN "awaitBody" ELSE "rejected",
       ![o].err = CASE outcome = "ok" -> ""
                    [] outcome = "notOk" -> "FailedToFetch"
                    [] OTHER -> "NetworkError"]
  /\ UNCHANGED <<wasmInit, wasmPromises, initWasmCalls, readers>>
  /\ UNCHANGED pkgVars

\* `await resp.arrayBuffer()` settles.
BodySettle(o, ok) ==
  /\ o \in DOMAIN opens /\ opens[o].pc = "awaitBody"
  /\ IF ok THEN Construct(o)
     ELSE /\ opens' = [opens EXCEPT ![o].pc = "rejected", ![o].err = "BodyError"]
          /\ UNCHANGED readers
  /\ UNCHANGED <<wasmInit, wasmPromises, initWasmCalls>>
  /\ UNCHANGED pkgVars

NextOpen ==
  \/ \E source \in Sources, wasmURL \in WasmURLs : OpenCall(source, wasmURL)
  \/ \E p \in 1..MaxOpens, ok \in BOOLEAN : WasmSettle(p, ok)
  \/ \E o \in 1..MaxOpens : OpenResume(o)
  \/ \E o \in 1..MaxOpens, outcome \in {"ok", "notOk", "networkError"} : FetchSettle(o, outcome)
  \/ \E o \in 1..MaxOpens, ok \in BOOLEAN : BodySettle(o, ok)

SpecOpen == Init /\ [][NextOpen]_vars

\* ------------------------------------------------------------------------
\* Properties of one package (checked under Spec)
\* ------------------------------------------------------------------------
Extractors == {"getBytes", "getBlob", "getText", "getURL"}

\* The paths of the index whose frame decodes.
ValidPath(path) ==
  /\ includes(fileIndex, path)
  /\ ExtractLive(reader, path, 1).ok

\* C1: once dispose() was called, list(), getBytes(), getBlob(), getText()
\* and getURL() fail with a closed-package error, return no value and do not
\* invoke the freed reader.
C1_ClosedAfterDispose ==
  (last.freedBefore /\ last.op \in Extractors \cup {"list"})
    => (~last.ok /\ last.err = "ClosedError" /\ last.calls = <<>>)

\* C2: for a path that is not an element of the file list (exact equality),
\* getBytes, getBlob, getText and getURL fail with path-not-found, before
\* extract_file is invoked; also when the file list is empty.
C2_PathNotFound ==
  (last.op \in Extractors /\ ~includes(fileIndex, last.path))
    => (~last.ok /\ last.err = "PathNotFound" /\ last.calls = <<>>)

\* C2 witness: getURL of a path that differs in case only from an entry.
C2_Witness ==
  /\ last.op = "getURL" /\ last.path = P_ogg /\ ~last.freedBefore
  /\ includes(fileIndex, P_OGG)
  /\ last.err = "PathNotFound"

\* C3: a failed getBytes, getBlob, getText or getURL leaves the file index,
\* the URL cache and the reader as they were, and an extraction of a valid
\* path made on the open package afterwards succeeds.
C3_FailedExtractFrame ==
  /\ [][(last'.n # last.n /\ last'.op \in Extractors /\ ~last'.ok)
          => (fileIndex' = fileIndex /\ urlCache' = urlCache /\ reader' = reader)]_vars
  /\ []((last.op \in Extractors /\ last.prevErr # "" /\ ~last.freedBefore
         /\ ValidPath(last.path)) => last.ok)

\* C3 witness: a valid path is extracted right after the reader failed to
\* decode another entry.
C3_Witness ==
  /\ last.op = "getURL" /\ last.ok /\ last.path = P_webp
  /\ last.prevErr = "DecodeError"
  /\ P_bin \notin DOMAIN urlCache

\* C4: list() returns the sequence of paths parsed from the reader's file
\* list at construction, in order, at every call; it invokes no extract_file
\* and changes no state of the package.
C4_ListStable ==
  /\ [](last.op = "list" =>
          /\ last.val.list = JSON_parse(TextDecoder_decode(
                               get_file_list([reader EXCEPT !.state = "live"]).val)).val
          /\ last.val.list = reader.data.paths)
  /\ [][(last'.n # last.n /\ last'.op = "list")
          => UNCHANGED <<reader, fileIndex, urlCache, urlRevokes, extractCalls>>]_vars

\* C4 witness: a listing of a two-entry archive made after extractions and
\* a getURL.
C4_Witness ==
  /\ last.op = "list" /\ last.n >= 3
  /\ Len(last.val.list) = 2
  /\ extractCalls >= 2 /\ urlCache # EmptyMap

\* C5: whatever is called, free() is invoked at most once on the reader and
\* every object URL is revoked at most once.
C5_DisposeOnce ==
  /\ reader.freeCalls <= 1
  /\ \A u \in DOMAIN urlRevokes : urlRevokes[u] <= 1

\* C6: when dispose() returns, every object URL created by getURL since the
\* package was opened has been revoked, the cache is empty and the reader
\* has been freed.
C6_DisposeReleases ==
  (last.op = "dispose" /\ last.ok)
    => /\ \A u \in DOMAIN urlRevokes : urlRevokes[u] >= 1
       /\ urlCache = EmptyMap
       /\ reader.state = "freed"

\* C6 witness: dispose after two object URLs were created.
C6_Witness ==
  /\ last.op = "dispose" /\ last.ok
  /\ Len(urlRevokes) = 2

\* C7: a successful getBytes, getBlob or getText invokes extract_file(path)
\* exactly once and returns the buffer that very call allocated.
C7_NoMemo ==
  (last.op \in {"getBytes", "getBlob", "getText"} /\ last.ok)
    => /\ last.calls = <<last.path>>
       /\ last.val.id = extractCalls

\* C7 witness: getText of a path getBytes had read before.
C7_Witness ==
  /\ last.op = "getText" /\ last.ok /\ last.seenBefore
  /\ extractCalls >= 2 /\ last.val.id = extractCalls

\* C8: on an open package the outcome of getBytes(path) is the one its first
\* call gave, whatever was called in between.
C8_OrderInvariant ==
  (last.op = "getBytes" /\ ~last.freedBefore /\ last.seenBefore)
    => /\ last.ok = seen[last.path].ok
       /\ last.err = seen[last.path].err
       /\ (last.ok => last.val.bytes = seen[last.path].bytes)

\* C8 witness: getBytes of a path repeated after a getURL and another
\* extraction were made.
C8_Witness ==
  /\ last.op = "getBytes" /\ ~last.freedBefore /\ last.ok /\ last.seenBefore
  /\ Cardinality(DOMAIN seen) = 2
  /\ urlCache # EmptyMap

\* ------------------------------------------------------------------------
\* Properties of ZstPackage.open (checked under SpecOpen)
\* ------------------------------------------------------------------------
\* C9: an open call either resolves with a package whose reader is
\* constructed and whose file index is the archive's whole file list, or it
\* rejects and hands out no package; no package exists before it settles.
C9_OpenAllOrNothing ==
  \A o \in DOMAIN opens :
    IF opens[o].pc = "resolved"
    THEN /\ opens[o].handle.made
         /\ opens[o].handle.reader.state = "live"
         /\ opens[o].handle.reader.data = opens[o].source.data
         /\ opens[o].handle.fileIndex = opens[o].source.data.paths
    ELSE ~opens[o].handle.made

\* C9 witness: one open rejected by the constructor after the reader was
\* made, another resolved with a two-entry index.
C9_Witness ==
  /\ \E o \in DOMAIN opens : opens[o].pc = "rejected" /\ opens[o].err = "SyntaxError"
  /\ \E o \in DOMAIN opens : opens[o].pc = "resolved" /\ Len(opens[o].handle.fileIndex) = 2

\* C10: initWasm is invoked at most once over all open calls, and every
\* open awaits the promise of that one initialisation.
C10_InitOnce ==
  /\ Len(initWasmCalls) <= 1
  /\ Len(wasmPromises) <= 1
  /\ \A o \in DOMAIN opens : opens[o].awaited = 1 /\ wasmInit = 1

\* C10 witness: two opens were called while the initialisation is pending.
C10_Witness ==
  /\ Len(opens) >= 2
  /\ wasmPromises[1] = "pending"
  /\ \A o \in DOMAIN opens : opens[o].pc = "awaitWasm"

\* C11: every ZstdReader is constructed after the shared wasm
\* initialisation was fulfilled, whatever the interleaving of the open
\* calls; an open whose fetch response is not ok rejects and constructs no
\* reader.
C11_ReaderAfterInit ==
  /\ \A i \in DOMAIN readers : readers[i].wasm = "fulfilled"
  /\ \A o \in DOMAIN opens :
       opens[o].err = "FailedToFetch"
         => /\ opens[o].pc = "rejected"
            /\ ~opens[o].handle.made
            /\ \A i \in DOMAIN readers : readers[i].owner # o

\* C11 witness: of two open calls one constructed a reader and the other
\* was rejected for a response that is not ok.
C11_Witness ==
  /\ Len(readers) = 1
  /\ \E o \in DOMAIN opens : opens[o].err = "FailedToFetch"

\* C12 as stated: between open and dispose, getURL invokes createObjectURL
\* and extract_file at most once per path, and every getURL(path) resolves
\* to the same URL.
C12_OncePerPath ==
  reader.state = "live" =>
    /\ \A p \in Paths : urlLog[p].creates <= 1 /\ urlLog[p].extracts <= 1
    /\ (last.op = "getURL" /\ last.ok) => last.val.url = urlLog[last.path].url

\* C12 amended: between open and dispose, getURL invokes createObjectURL at
\* most once per path and at most one of its extract_file invocations per
\* path succeeds, and every getURL(path) that resolves gives the same URL.
C12_OncePerPathOnSuccess ==
  reader.state = "live" =>
    /\ \A p \in Paths : urlLog[p].creates <= 1 /\ urlLog[p].extractsOk <= 1
    /\ (last.op = "getURL" /\ last.ok) => last.val.url = urlLog[last.path].url

\* C12 witness: a repeated getURL of a path, answered from the cache while
\* another path has a URL of its own.
C12_Witness ==
  /\ reader.state = "live"
  /\ last.op = "getURL" /\ last.ok /\ last.calls = <<>> /\ last.prevErr = ""
  /\ urlLog[last.path].creates = 1 /\ urlLog[last.path].extracts = 1
  /\ Len(urlRevokes) = 2

\* ------------------------------------------------------------------------
\* MIME detection (checked under SpecMime)
\* ------------------------------------------------------------------------
\* Endings and beginnings the paths of SpecMime are put together from.
MimeEndings ==
  {<<"w", "e", "b", "p">>, <<"o", "g", "g">>, <<"g", "l", "t", "f">>, <<"b", "i", "n">>,
   <<"O", "G", "G">>, <<"G", "l", "t", "f">>, <<"g", "l", "b">>, <<"t", "x", "t">>, <<>>,
   <<"w", "e", "b">>, <<"o", "g", "g", "x">>,
   <<"c", "o", "n", "s", "t", "r", "u", "c", "t", "o", "r">>,
   <<"_", "_", "p", "r", "o", "t", "o", "_", "_">>}

MimeStems ==
  {<<>>, <<"a", ".">>, <<"a", ".", "b", ".">>, <<".">>, <<"w", "e", "b", "p", ".">>,
   <<"a", ".", "o", "g", "g", ".">>}

MimePaths == {stem \o ending : stem \in MimeStems, ending \in MimeEndings}

\* An archive holding the one entry `path`.
ArchOf(path) ==
  [magic |-> TRUE, paths |-> <<path>>, listCut |-> 0, listOk |-> TRUE,
   frames |-> <<GoodFrame(<<97>>)>>]

\* A package is opened on a one-entry archive and its entry is read as a
\* Blob, repeatedly.
NextMime ==
  \/ \E path \in MimePaths : Open(ArchOf(path))
  \/ \E path \in MimePaths : includes(fileIndex, path) /\ GetBlob(path)

SpecMime == Init /\ [][NextMime]_vars

HasDot(path) == \E i \in 1..Len(path) : path[i] = "."

\* C13: the Blob's type is image/webp, audio/ogg or model/gltf+json when the
\* lower-cased text after the last "." of the path is webp, ogg or gltf, and
\* application/octet-stream for every other path, a path without "."
\* included.
C13_MimeOfBlob ==
  (last.op = "getBlob" /\ last.ok) =>
    LET ext == IF HasDot(last.path) THEN toLowerCase(LastSegment(last.path)) ELSE <<".">>
    IN last.val.type =
         CASE ext = <<"w", "e", "b", "p">> -> "image/webp"
           [] ext = <<"o", "g", "g">> -> "audio/ogg"
           [] ext = <<"g", "l", "t", "f">> -> "model/gltf+json"
           [] OTHER -> "application/octet-stream"

\* ------------------------------------------------------------------------
\* Further properties of one package (Spec) and of open (SpecOpen)
\* ------------------------------------------------------------------------
\* C14: the URLs held in the URL cache are exactly the object URLs created
\* so far and not revoked; a URL getURL returns is not revoked.
C14_CacheIsLiveURLs ==
  /\ {urlCache[p] : p \in DOMAIN urlCache} = {u \in DOMAIN urlRevokes : urlRevokes[u] = 0}
  /\ (last.op = "getURL" /\ last.ok) => urlRevokes[last.val.url] = 0

\* C14 witness: getURL creates a URL for a package that was disposed while
\* it held another one.
C14_Witness ==
  /\ last.op = "getURL" /\ last.ok /\ last.freedBefore
  /\ Len(urlRevokes) = 2 /\ urlRevokes[1] = 1
  /\ Cardinality(DOMAIN urlCache) = 1

\* C15: every ZstdReader that was constructed is owned by a package that
\* open returned, or was freed when open rejected.
C15_NoReaderLeak ==
  \A i \in DOMAIN readers :
    \/ readers[i].owned /\ opens[readers[i].owner].pc = "resolved"
    \/ readers[i].freed

\* C16: when the first initialisation failed, every open that got past its
\* await was rejected with that failure; initWasm is not invoked again, and
\* the only wasmURL it ever gets is that of the first open call.
C16_InitSticky ==
  /\ Len(initWasmCalls) <= 1
  /\ \A k \in DOMAIN initWasmCalls : initWasmCalls[k] = InitArg(opens[1].wasmURL)
  /\ (wasmPromises # <<>> /\ wasmPromises[1] = "rejected") =>
       \A o \in DOMAIN opens :
         /\ opens[o].awaited = 1
         /\ opens[o].pc \in {"awaitWasm", "rejected"}
         /\ opens[o].pc = "rejected" => opens[o].err = "WasmInitError"

\* C16 witness: an open called with another wasmURL after the first
\* initialisation had failed was rejected in its turn.
C16_Witness ==
  /\ Len(opens) >= 2
  /\ wasmPromises[1] = "rejected"
  /\ opens[2].late /\ opens[2].pc = "rejected"
  /\ Truthy(opens[2].wasmURL) /\ ~Truthy(opens[1].wasmURL)

====
